---- MODULE Spec2Model ----
(***************************************************************************)
(* Routing and escalation core of the NeuroSupport chat backend:           *)
(* the WebSocket endpoint (role validation, therapist kill switch), the    *)
(* connection manager, the chat-health evaluator and the per-session       *)
(* escalation record, as described by the code excerpts of the repository, *)
(* and the escalation card of the frontend chat page with its booking       *)
(* request.                                                                 *)
(*                                                                         *)
(* The handler is an asyncio coroutine per connection: it can be           *)
(* interleaved with other coroutines only at an await.  A dispatch turn is *)
(* therefore two atomic steps: Recv (receive, persist, route; ends at the  *)
(* awaited broadcast) and Decide (kill-switch gate, escalation logic, the  *)
(* synchronous AI call and the append of its reply).                       *)
(***************************************************************************)
EXTENDS Integers, Sequences, FiniteSets, TLC

VARIABLES
    connOpen,             \* connection -> accepted and not yet closed
    connSession,          \* connection -> session of the endpoint path
    queryRole,            \* connection -> role query parameter of its request
    connRole,             \* connection -> role the manager registered it under
    lastConnect,          \* outcome of the latest connection attempt
    pc,                   \* connection -> position of its handler coroutine
    cur,                  \* connection -> locals of the turn in progress
    sessions,             \* ConnectionManager.sessions: session -> role -> socket
    AI_DISABLED_SESSIONS, \* ai_lock.AI_DISABLED_SESSIONS
    messages,             \* chat_messages rows per session, in persistence order
    escalation,           \* chat_escalations row per session (session_id UNIQUE)
    hadTherapist,         \* history: a therapist connection has existed
    inserts,              \* history: rows ever inserted into chat_escalations
    suggestions,          \* history: SYSTEM_SUGGESTION frames sent per session
    joinNotices,          \* history: therapist-joined notices received per connection
    nFrames,              \* number of inbound frames so far
    page,                 \* connection -> escalation state of its chat page
    appointments,         \* appointments rows per session (session_id UNIQUE)
    client,               \* chat page of one browser: message store, history load
    hook                  \* useWebSocket of one browser: sessionId, sockets, wsRef

vars == <<connOpen, connSession, queryRole, connRole, lastConnect, pc, cur, sessions,
          AI_DISABLED_SESSIONS, messages, escalation, hadTherapist, inserts,
          suggestions, joinNotices, nFrames, page, appointments,
          client, hook>>

-----------------------------------------------------------------------------
(* Bounds *)

MaxNotices == 2
MaxFrames == 3
MaxHistory == 4

(* Universe *)

Sessions == {"s1", "s2"}
MainSessions == {"s1"}
Conns == {"c1", "c2"}
Roles == {"user", "therapist"}
RequestedRoles == {"user", "therapist", "admin", "missing"}
FrameSenders == {"user", "therapist", "ai"}
NoConn == "none"

\* connections are interchangeable names: a new connection takes the lowest free one
ConnIndex(c) == IF c = "c1" THEN 1 ELSE 2
LowestClosed(c) == \A d \in Conns : ConnIndex(d) < ConnIndex(c) => connOpen[d]
NoSession == "none"

UserContents == {"hello", "I feel hopeless", "I need a therapist", "Yes", "not now"}
TherapistContents == {"hello", "Yes"}
Contents == UserContents \cup TherapistContents
ESCALATE == "<<ESCALATE>>"
\* the modelled AI outputs that hold the token: alone, and after some text
SentinelTexts == {ESCALATE, "I hear you. <<ESCALATE>>"}
AiTexts == {"How can I help?"}
AiConfidences == {80}

-----------------------------------------------------------------------------
(* connection_manager.py *)

\* variant: a therapist has joined the session at some time
therapist_has_joined(s) == s \in AI_DISABLED_SESSIONS

has_therapist(s) == sessions[s]["therapist"] # NoConn

ManagerConnect(c, s, role) == [sessions EXCEPT ![s][role] = c]

ManagerDisconnect(s, role) == [sessions EXCEPT ![s][role] = NoConn]

Registered(s) == {sessions[s][r] : r \in Roles} \ {NoConn}

broadcast_to_session(s) == Registered(s)

send_to_role(s, role) == {sessions[s][role]} \ {NoConn}

send_to_other(s, sender_role) ==
    {sessions[s][r] : r \in Roles \ {sender_role}} \ {NoConn}

-----------------------------------------------------------------------------
(* ai_lock.py *)

\* variant: the switch follows the registry (NUCLEAR_FIX: "Bot becomes active again")
is_ai_disabled_registry(s) == has_therapist(s)

\* variant: no gate in front of the AI logic
ai_never_disabled(s) == FALSE

is_ai_disabled(s) == s \in AI_DISABLED_SESSIONS

\* variant: the therapist connect does not blacklist the session
disable_ai_noop(s) == AI_DISABLED_SESSIONS

\* variant: one process-wide switch instead of a set of sessions
disable_ai_for_all(s) == Sessions

disable_ai_for_session(s) == AI_DISABLED_SESSIONS \cup {s}

\* the session is human-handled: the AI is switched off for it
isHumanHandled(s) == is_ai_disabled(s)

-----------------------------------------------------------------------------
(* chat_messages *)

\* A row of chat_messages as the handler reads it back: sender role, emotion and
\* confidence; the text is kept for ai rows only (detect_ai_repetition compares
\* them), the text of a user or therapist row is never read back
Row(role, content, emotion, conf) ==
    [role |-> role, content |-> IF role = "ai" THEN content ELSE "-",
     emotion |-> emotion, conf |-> conf]

\* EmotionAnalyzer on the modelled contents
Classify(content) == IF content = "I feel hopeless" THEN "sadness" ELSE "neutral"

\* ChatMessage as the history endpoint returns it: sender_type is 'visitor' |
\* 'therapist' | 'ai'
ChatMessage(row) ==
    [sender_type |-> IF row.role = "user" THEN "visitor" ELSE row.role,
     content |-> row.content]

\* GET /api/chat/messages/{session_id}: the stored rows in the order they were
\* saved (the default limit of 100 is above every history considered here)
getChatHistory(msgs) == [i \in 1..Len(msgs) |-> ChatMessage(msgs[i])]

\* variant: a failed transformer leaves the message without a label
no_emotion(content) == {"none"}

\* the rule-based detection (keyword matching, sentiment analysis) that runs when
\* the transformer fails; its keyword table is not part of the excerpts, so the
\* label is any one the modelled messages can carry
fallback_emotions(content) == {"sadness", "neutral"}

\* variant: the row is written a second time (a retried save)
save_message_twice(history, row) == Append(Append(history, row), row)

\* variant: the row is put in front of the stored rows
save_message_first(history, row) == <<row>> \o history

\* save_message(session_id, sender, content): one INSERT at the end of the table
save_message(history, row) == Append(history, row)

-----------------------------------------------------------------------------
(* chat_health_service.py *)

RECENT_MESSAGE_COUNT == 5
REPETITION_WINDOW == 10
REPETITION_THRESHOLD == 3
NEGATIVE_EMOTION_THRESHOLD == 3
LOW_CONFIDENCE_THRESHOLD == 55
LOW_CONFIDENCE_THRESHOLD_COUNT == 2

NEGATIVE_EMOTIONS == {"sadness", "fear", "anger", "anxiety"}

INTENT_KEYWORDS == {"therapist", "human", "real person", "appointment", "book",
                    "someone", "professional", "doctor", "counselor",
                    "help me please"}

ACCEPT_TOKENS == {"yes", "okay", "book"}
DECLINE_TOKENS == {"no", "not now"}

\* str.lower() on the modelled contents
Lower(content) ==
    CASE content = "I need a therapist" -> "i need a therapist"
      [] content = "I feel hopeless" -> "i feel hopeless"
      [] content = "How can I help?" -> "how can i help?"
      [] content = "HOW CAN I HELP?" -> "how can i help?"
      [] content = "Tell me more." -> "tell me more."
      [] content = "Yes" -> "yes"
      [] OTHER -> content

\* the keywords k with `k in content_lower` (substring test) on the modelled contents
KeywordsIn(content_lower) ==
    CASE content_lower = "i need a therapist" -> {"therapist"}
      [] content_lower = "book" -> {"book"}
      [] OTHER -> {}

check_user_intent(content) ==
    \E keyword \in INTENT_KEYWORDS : keyword \in KeywordsIn(Lower(content))

LastN(seq, n) ==
    IF Len(seq) <= n THEN seq ELSE SubSeq(seq, Len(seq) - n + 1, Len(seq))

\* str.strip() on the modelled contents
Strip(content) == IF content = "  HOW CAN I HELP? " THEN "HOW CAN I HELP?" ELSE content

\* [:100]: every modelled content is shorter than the prefix
Truncate(content) == content

\* variant: the responses are compared as stored
Unnormalized(content) == content

\* msg.content.strip().lower()[:100]
Normalized(content) == Truncate(Lower(Strip(content)))

\* variant: the responses of the whole conversation are counted
detect_ai_repetition_all(msgs) ==
    \E i \in 1..Len(msgs) :
        /\ msgs[i].role = "ai"
        /\ Cardinality({j \in 1..Len(msgs) :
                /\ msgs[j].role = "ai"
                /\ Normalized(msgs[j].content) = Normalized(msgs[i].content)})
           >= REPETITION_THRESHOLD

detect_ai_repetition(msgs) ==
    LET recent == LastN(msgs, REPETITION_WINDOW)
    IN  \E i \in 1..Len(recent) :
            /\ recent[i].role = "ai"
            /\ Cardinality({j \in 1..Len(recent) :
                    /\ recent[j].role = "ai"
                    /\ Normalized(recent[j].content) = Normalized(recent[i].content)})
               >= REPETITION_THRESHOLD

IsNegativeVisitor(m) == m.role = "user" /\ m.emotion \in NEGATIVE_EMOTIONS

\* variant: a confidence equal to the threshold counts as low
IsLowConfidenceAiInclusive(m) == m.role = "ai" /\ m.conf <= LOW_CONFIDENCE_THRESHOLD

IsLowConfidenceAi(m) == m.role = "ai" /\ m.conf < LOW_CONFIDENCE_THRESHOLD

negative_emotion_count(recent) ==
    Cardinality({i \in 1..Len(recent) : IsNegativeVisitor(recent[i])})

low_confidence_ai_count(recent) ==
    Cardinality({i \in 1..Len(recent) : IsLowConfidenceAi(recent[i])})

\* variant: two negative messages are enough
evaluate_chat_health_two_negative(msgs) ==
    LET recent == LastN(msgs, RECENT_MESSAGE_COUNT)
    IN  IF detect_ai_repetition(msgs) THEN "ai_repetition"
        ELSE IF negative_emotion_count(recent) >= NEGATIVE_EMOTION_THRESHOLD - 1
             THEN "emotional_distress"
        ELSE IF low_confidence_ai_count(recent) >= LOW_CONFIDENCE_THRESHOLD_COUNT
             THEN "low_ai_confidence"
        ELSE "none"

\* variant: emotional distress is checked before AI repetition
evaluate_chat_health_distress_first(msgs) ==
    LET recent == LastN(msgs, RECENT_MESSAGE_COUNT)
    IN  IF negative_emotion_count(recent) >= NEGATIVE_EMOTION_THRESHOLD
             THEN "emotional_distress"
        ELSE IF detect_ai_repetition(msgs) THEN "ai_repetition"
        ELSE IF low_confidence_ai_count(recent) >= LOW_CONFIDENCE_THRESHOLD_COUNT
             THEN "low_ai_confidence"
        ELSE "none"

evaluate_chat_health(msgs) ==
    LET recent == LastN(msgs, RECENT_MESSAGE_COUNT)
    IN  IF detect_ai_repetition(msgs) THEN "ai_repetition"
        ELSE IF negative_emotion_count(recent) >= NEGATIVE_EMOTION_THRESHOLD
             THEN "emotional_distress"
        ELSE IF low_confidence_ai_count(recent) >= LOW_CONFIDENCE_THRESHOLD_COUNT
             THEN "low_ai_confidence"
        ELSE "none"

\* variant: the chat-health detectors are consulted before the intent keywords
TriggerReasonHealthFirst(content, msgs) ==
    IF evaluate_chat_health(msgs) # "none" THEN evaluate_chat_health(msgs)
    ELSE IF check_user_intent(content) THEN "user_request" ELSE "none"

\* variant: no check before the AI call
NoTrigger(content, msgs) == "none"

\* the reason of the escalation the handler triggers before the AI call, or "none"
TriggerReason(content, msgs) ==
    IF check_user_intent(content) THEN "user_request" ELSE evaluate_chat_health(msgs)

-----------------------------------------------------------------------------
(* chat_escalations *)

NoRecord == [status |-> "none", reason |-> "none", resolved |-> FALSE]

NewRecord(reason) == [status |-> "pending", reason |-> reason, resolved |-> FALSE]

\* variant: chat_escalations without the UNIQUE constraint
InsertUnconstrained(s) == TRUE

\* INSERT under the UNIQUE constraint on session_id
InsertAllowed(s) == escalation[s].status = "none"

\* variant: the reply check reads any row of the session, resolved or not
any_escalation(s) == escalation[s].status # "none"

existing_escalation(s) == escalation[s].status = "pending"

\* variant: only an unresolved row blocks a new escalation
no_pending_escalation(s) == escalation[s].status # "pending"

no_escalation_exists(s) == escalation[s].status = "none"

user_says_yes(content) == Lower(content) \in ACCEPT_TOKENS

\* variant: no decline token is recognised
never_says_no(content) == FALSE

user_says_no(content) == Lower(content) \in DECLINE_TOKENS

mark_accepted(rec) == [rec EXCEPT !.status = "accepted", !.resolved = TRUE]

mark_declined(rec) == [rec EXCEPT !.status = "declined", !.resolved = TRUE]

-----------------------------------------------------------------------------
(* State after start-up: no connection, empty registry, empty tables *)

IdleTurn == [content |-> "none", statusAtRecv |-> "none"]

\* useState(false) for showEscalation, isBooking and bookingConfirmed
FreshPage == [showEscalation |-> FALSE, isBooking |-> FALSE, bookingConfirmed |-> FALSE,
              hideTimer |-> FALSE]

\* chatStore initial state (messages: []) before the chat page is mounted:
\* no history request, no socket, no frame on its way
FreshClient == [messages |-> <<>>, history |-> "none", snapshot |-> <<>>,
                socket |-> "none", frames |-> <<>>, received |-> {}]

\* useRef(null), chatStore ws: null and isConnected: false, no socket created;
\* sockets are numbered in the order of their creation, 0 stands for null
FreshHook == [sessionId |-> "none", sockets |-> <<>>, wsRef |-> 0, ws |-> 0,
              isConnected |-> FALSE]

Init ==
    /\ connOpen = [c \in Conns |-> FALSE]
    /\ connSession = [c \in Conns |-> NoSession]
    /\ queryRole = [c \in Conns |-> "none"]
    /\ connRole = [c \in Conns |-> "none"]
    /\ lastConnect = "none"
    /\ pc = [c \in Conns |-> "closed"]
    /\ cur = [c \in Conns |-> IdleTurn]
    /\ sessions = [s \in Sessions |-> [r \in Roles |-> NoConn]]
    /\ AI_DISABLED_SESSIONS = {}
    /\ messages = [s \in Sessions |-> <<>>]
    /\ escalation = [s \in Sessions |-> NoRecord]
    /\ hadTherapist = [s \in Sessions |-> FALSE]
    /\ inserts = [s \in Sessions |-> 0]
    /\ suggestions = [s \in Sessions |-> 0]
    /\ joinNotices = [c \in Conns |-> 0]
    /\ nFrames = 0
    /\ page = [c \in Conns |-> FreshPage]
    /\ appointments = [s \in Sessions |-> 0]
    /\ client = FreshClient
    /\ hook = FreshHook

-----------------------------------------------------------------------------
(* routers/chat.py: websocket_endpoint, connection part *)

\* variant: an unknown or missing role falls back to "user"
CoerceRole(role) == IF role \in {"user", "therapist"} THEN role ELSE "user"

\* role = websocket.query_params.get("role")
EffectiveRole(role) == role

ValidRole(role) == role \in {"user", "therapist"}

\* role not in ("user", "therapist"): websocket.close(code=1008, reason="Invalid role")
ConnectRejected(c, s, role) ==
    /\ ~connOpen[c] /\ LowestClosed(c)
    /\ ~ValidRole(EffectiveRole(role))
    /\ lastConnect' = "Invalid role"
    /\ UNCHANGED <<connOpen, connSession, queryRole, connRole, pc, cur, sessions,
                   AI_DISABLED_SESSIONS, messages, escalation, hadTherapist,
                   inserts, suggestions, joinNotices, nFrames>>
    /\ UNCHANGED <<page, appointments, client, hook>>

\* manager.connect(websocket, session_id, role) for role == "user"
ConnectUser(c, s, role) ==
    /\ ~connOpen[c] /\ LowestClosed(c)
    /\ ValidRole(EffectiveRole(role))
    /\ EffectiveRole(role) = "user"
    /\ connOpen' = [connOpen EXCEPT ![c] = TRUE]
    /\ connSession' = [connSession EXCEPT ![c] = s]
    /\ queryRole' = [queryRole EXCEPT ![c] = role]
    /\ connRole' = [connRole EXCEPT ![c] = EffectiveRole(role)]
    /\ lastConnect' = "accepted"
    /\ pc' = [pc EXCEPT ![c] = "idle"]
    /\ sessions' = ManagerConnect(c, s, EffectiveRole(role))
    /\ joinNotices' = [joinNotices EXCEPT ![c] = 0]
    /\ UNCHANGED <<cur, AI_DISABLED_SESSIONS, messages, escalation, hadTherapist,
                   inserts, suggestions, nFrames>>
    /\ UNCHANGED <<page, appointments, client, hook>>

\* variant: the notice is sent only while the session is not yet blacklisted
JoinNoticeOnce(s) == IF is_ai_disabled(s) THEN {} ELSE send_to_other(s, "therapist")

\* the recipients of the "Therapist has joined. AI is disabled." notice
JoinNoticeTo(s) == send_to_other(s, "therapist")

\* manager.connect, then: if role == "therapist": disable_ai_for_session; notify user
ConnectTherapist(c, s, role) ==
    /\ ~connOpen[c] /\ LowestClosed(c)
    /\ ValidRole(EffectiveRole(role))
    /\ EffectiveRole(role) = "therapist"
    /\ \A d \in JoinNoticeTo(s) : joinNotices[d] < MaxNotices
    /\ connOpen' = [connOpen EXCEPT ![c] = TRUE]
    /\ connSession' = [connSession EXCEPT ![c] = s]
    /\ queryRole' = [queryRole EXCEPT ![c] = role]
    /\ connRole' = [connRole EXCEPT ![c] = EffectiveRole(role)]
    /\ lastConnect' = "accepted"
    /\ pc' = [pc EXCEPT ![c] = "idle"]
    /\ sessions' = ManagerConnect(c, s, EffectiveRole(role))
    /\ AI_DISABLED_SESSIONS' = disable_ai_for_session(s)
    /\ hadTherapist' = [hadTherapist EXCEPT ![s] = TRUE]
    /\ joinNotices' = [d \in Conns |->
            IF d = c THEN 0
            ELSE IF d \in JoinNoticeTo(s) THEN joinNotices[d] + 1
            ELSE joinNotices[d]]
    /\ UNCHANGED <<cur, messages, escalation, inserts, suggestions, nFrames>>
    /\ UNCHANGED <<page, appointments, client, hook>>

\* WebSocketDisconnect in the receive loop: manager.disconnect(session_id, role)
DisconnectHandler(c) ==
    /\ connOpen[c]
    /\ pc[c] = "idle"
    /\ connOpen' = [connOpen EXCEPT ![c] = FALSE]
    /\ pc' = [pc EXCEPT ![c] = "closed"]
    /\ connSession' = [connSession EXCEPT ![c] = NoSession]
    /\ queryRole' = [queryRole EXCEPT ![c] = "none"]
    /\ connRole' = [connRole EXCEPT ![c] = "none"]
    /\ joinNotices' = [joinNotices EXCEPT ![c] = 0]
    /\ sessions' = ManagerDisconnect(connSession[c], connRole[c])
    /\ UNCHANGED <<lastConnect, cur, AI_DISABLED_SESSIONS, messages, escalation,
                   hadTherapist, inserts, suggestions, nFrames>>

\* the client leaves the page: its socket closes and its page state is gone
Disconnect(c) ==
    /\ DisconnectHandler(c)
    /\ page' = [page EXCEPT ![c] = FreshPage]
    /\ UNCHANGED <<appointments, client, hook>>

-----------------------------------------------------------------------------
(* routers/chat.py: message loop, up to the awaited routing of the message *)

\* variant: sender = data["sender"] (the handler before the role fix)
SenderFromFrame(c, frameSender) == frameSender

\* variant: every message is taken as a user message
SenderAlwaysUser(c, frameSender) == "user"

\* sender from the connection role, never from the message payload
ResolveSender(c, frameSender) == connRole[c]

\* what receiving one frame persists and routes, and where the handler goes next
RecvEffect(c, content, frameSender) ==
    LET s == connSession[c]
        sender_role == ResolveSender(c, frameSender)
    IN  [msg  |-> Row(sender_role, content,
                       IF sender_role = "user" THEN Classify(content) ELSE "none",
                       100),
         to   |-> IF has_therapist(s) THEN send_to_other(s, sender_role)
                  ELSE broadcast_to_session(s),
         next |-> IF ~has_therapist(s) /\ sender_role = "user"
                  THEN "decide" ELSE "idle"]

\* variant: every frame is handed to a task of its own as soon as it arrives
ReceivesAnytime(c) == pc[c] \in {"idle", "decide"}

\* the handler is at its receive call: the previous iteration of the loop is over
AtReceive(c) == pc[c] = "idle"

\* one iteration of the receive loop on a frame of connection c, e being what
\* the frame persists and routes
RecvFrameWith(c, content, e) ==
    /\ connOpen[c]
    /\ AtReceive(c)
    /\ nFrames < MaxFrames
    /\ LET s == connSession[c]
       IN  /\ messages' = [messages EXCEPT ![s] = save_message(@, e.msg)]
           /\ pc' = [pc EXCEPT ![c] = e.next]
           /\ cur' = [cur EXCEPT ![c] =
                  IF e.next = "decide"
                  THEN [content |-> content, statusAtRecv |-> escalation[s].status]
                  ELSE IdleTurn]
    /\ nFrames' = nFrames + 1
    /\ UNCHANGED <<connOpen, connSession, queryRole, connRole, lastConnect, sessions,
                   AI_DISABLED_SESSIONS, escalation, hadTherapist, inserts,
                   suggestions, joinNotices>>

RecvFrame(c, content, frameSender) ==
    RecvFrameWith(c, content, RecvEffect(c, content, frameSender))

\* a user message received while the transformer is failing: the label comes
\* from the rule-based detection
RecvClassifierDown(c, content, emotion) ==
    /\ connRole[c] = "user"
    /\ content \in UserContents
    /\ emotion \in fallback_emotions(content)
    /\ RecvFrameWith(c, content,
            [RecvEffect(c, content, "user") EXCEPT !.msg.emotion = emotion])
    /\ UNCHANGED <<page, appointments, client, hook>>

\* a typed message (handleSend) or a frame of any other client
Recv(c, content, frameSender) ==
    /\ content \in (IF connRole[c] = "therapist" THEN TherapistContents
                    ELSE UserContents)
    /\ RecvFrame(c, content, frameSender)
    /\ UNCHANGED <<page, appointments, client, hook>>

-----------------------------------------------------------------------------
(* routers/chat.py: message loop, after the broadcast (sender_role == "user") *)

\* the rule-based reply of the fallback generator (Gemini unavailable)
FallbackText == "I hear you. Can you tell me more?"

AiOutputs == [text : AiTexts \cup SentinelTexts, conf : AiConfidences]

\* variant: the output is compared with the token for equality
SentinelEquals(text) == text = ESCALATE

\* "<<ESCALATE>>" in ai_response (substring test) on the modelled outputs
ContainsSentinel(text) == text \in SentinelTexts

\* chat_service.get_ai_response: the kill switch is checked at function entry
get_ai_response(s, out) ==
    IF is_ai_disabled(s) THEN [text |-> "", conf |-> 100] ELSE out

\* useWebSocket.onmessage dispatches the frame as a window event; the chat page
\* listeners set the escalation state of every page that receives it
OnFrame(pg, type) ==
    IF type = "SYSTEM_SUGGESTION" THEN [pg EXCEPT !.showEscalation = TRUE]
    ELSE IF type = "ESCALATION_ACCEPTED"
         THEN [pg EXCEPT !.showEscalation = FALSE, !.bookingConfirmed = TRUE]
    ELSE pg

Deliver(type, to) == [d \in Conns |-> IF d \in to THEN OnFrame(page[d], type) ELSE page[d]]

\* variant: the suggestion is sent to no connection
SuggestionToNobody(s) == {}

\* escalation messages use send_to_role("user")
SuggestionTo(s) == send_to_role(s, "user")

EndTurn(c) ==
    /\ pc' = [pc EXCEPT ![c] = "idle"]
    /\ cur' = [cur EXCEPT ![c] = IdleTurn]

\* the record the AI step starts from: a declined reply is marked, then the
\* handler continues to the AI response
AfterReply(s, content) ==
    IF existing_escalation(s) /\ user_says_no(content)
    THEN mark_declined(escalation[s]) ELSE escalation[s]

\* the handler reaches the AI call: not an accepted reply, no escalation triggered
ReachesAi(c) ==
    LET s == connSession[c] IN
    /\ pc[c] = "decide"
    /\ ~is_ai_disabled(s)
    /\ ~(existing_escalation(s) /\ user_says_yes(cur[c].content))
    /\ ~(no_escalation_exists(s) /\ TriggerReason(cur[c].content, messages[s]) # "none")

\* if is_ai_disabled(session_id): continue
DecideDisabled(c) ==
    /\ pc[c] = "decide"
    /\ is_ai_disabled(connSession[c])
    /\ EndTurn(c)
    /\ UNCHANGED <<connOpen, connSession, queryRole, connRole, lastConnect, sessions,
                   AI_DISABLED_SESSIONS, messages, escalation, hadTherapist, inserts,
                   suggestions, joinNotices, nFrames>>
    /\ UNCHANGED <<page, appointments, client, hook>>

\* if existing_escalation and user_says_yes: send ESCALATION_ACCEPTED; stop
DecideAccepted(c) ==
    LET s == connSession[c] IN
    /\ pc[c] = "decide"
    /\ ~is_ai_disabled(s)
    /\ existing_escalation(s) /\ user_says_yes(cur[c].content)
    /\ escalation' = [escalation EXCEPT ![s] = mark_accepted(@)]
    /\ EndTurn(c)
    /\ UNCHANGED <<connOpen, connSession, queryRole, connRole, lastConnect, sessions,
                   AI_DISABLED_SESSIONS, messages, hadTherapist, inserts,
                   suggestions, joinNotices, nFrames>>
    /\ page' = Deliver("ESCALATION_ACCEPTED", send_to_role(connSession[c], "user"))
    /\ UNCHANGED <<appointments, client, hook>>

\* if no_escalation_exists and (intent or struggling): create, suggest, stop
\* (the INSERT cannot conflict: the row was read as absent in this same step)
DecideEscalate(c) ==
    LET s == connSession[c] IN
    /\ pc[c] = "decide"
    /\ ~is_ai_disabled(s)
    /\ no_escalation_exists(s)
    /\ TriggerReason(cur[c].content, messages[s]) # "none"
    /\ escalation' = [escalation EXCEPT ![s] =
            NewRecord(TriggerReason(cur[c].content, messages[s]))]
    /\ inserts' = [inserts EXCEPT ![s] = @ + 1]
    /\ suggestions' = [suggestions EXCEPT ![s] = @ + 1]
    /\ EndTurn(c)
    /\ UNCHANGED <<connOpen, connSession, queryRole, connRole, lastConnect, sessions,
                   AI_DISABLED_SESSIONS, messages, hadTherapist, joinNotices,
                   nFrames>>
    /\ page' = Deliver("SYSTEM_SUGGESTION", SuggestionTo(connSession[c]))
    /\ UNCHANGED <<appointments, client, hook>>

\* ai_response without the token: save and broadcast it as the ai message
DecideAiReply(c, out) ==
    LET s == connSession[c]
        resp == get_ai_response(s, out)
    IN
    /\ ReachesAi(c)
    /\ ~ContainsSentinel(resp.text)
    /\ escalation' = [escalation EXCEPT ![s] = AfterReply(s, cur[c].content)]
    /\ messages' = [messages EXCEPT ![s] =
            IF resp.text = "" THEN @
            ELSE save_message(@, Row("ai", resp.text, "none", resp.conf))]
    /\ EndTurn(c)
    /\ UNCHANGED <<connOpen, connSession, queryRole, connRole, lastConnect, sessions,
                   AI_DISABLED_SESSIONS, hadTherapist, inserts, suggestions,
                   joinNotices, nFrames>>
    /\ UNCHANGED <<page, appointments, client, hook>>

\* Gemini unavailable: get_ai_response falls back to the rule-based reply, which
\* the handler saves and broadcasts like any other ai_response
DecideAiFallback(c) ==
    \E conf \in AiConfidences : DecideAiReply(c, [text |-> FallbackText, conf |-> conf])

\* "<<ESCALATE>>" in ai_response: create the escalation, suggest, drop the token
DecideAiSignal(c, out) ==
    LET s == connSession[c]
        resp == get_ai_response(s, out)
    IN
    /\ ReachesAi(c)
    /\ ContainsSentinel(resp.text)
    /\ InsertAllowed(s)
    /\ escalation' = [escalation EXCEPT ![s] = NewRecord("gemini_detected")]
    /\ inserts' = [inserts EXCEPT ![s] = @ + 1]
    /\ suggestions' = [suggestions EXCEPT ![s] = @ + 1]
    /\ EndTurn(c)
    /\ UNCHANGED <<connOpen, connSession, queryRole, connRole, lastConnect, sessions,
                   AI_DISABLED_SESSIONS, messages, hadTherapist, joinNotices,
                   nFrames>>
    /\ page' = Deliver("SYSTEM_SUGGESTION", SuggestionTo(connSession[c]))
    /\ UNCHANGED <<appointments, client, hook>>

\* the token while a row of the session exists: the INSERT violates the UNIQUE
\* constraint and raises before the suggestion is sent; the handler either
\* survives the error (dies = FALSE) or ends and disconnects (dies = TRUE)
DecideAiSignalConflict(c, out, dies) ==
    LET s == connSession[c]
        resp == get_ai_response(s, out)
    IN
    /\ ReachesAi(c)
    /\ ContainsSentinel(resp.text)
    /\ ~InsertAllowed(s)
    /\ escalation' = [escalation EXCEPT ![s] = AfterReply(s, cur[c].content)]
    /\ cur' = [cur EXCEPT ![c] = IdleTurn]
    /\ IF dies
       THEN /\ pc' = [pc EXCEPT ![c] = "closed"]
            /\ connOpen' = [connOpen EXCEPT ![c] = FALSE]
            /\ connSession' = [connSession EXCEPT ![c] = NoSession]
            /\ queryRole' = [queryRole EXCEPT ![c] = "none"]
            /\ connRole' = [connRole EXCEPT ![c] = "none"]
            /\ joinNotices' = [joinNotices EXCEPT ![c] = 0]
            /\ sessions' = ManagerDisconnect(s, connRole[c])
       ELSE /\ pc' = [pc EXCEPT ![c] = "idle"]
            /\ UNCHANGED <<connOpen, connSession, queryRole, connRole, joinNotices,
                           sessions>>
    /\ UNCHANGED <<lastConnect, AI_DISABLED_SESSIONS, messages, hadTherapist,
                   inserts, suggestions, nFrames>>
    /\ page' = [page EXCEPT ![c] = IF dies THEN FreshPage ELSE @]
    /\ UNCHANGED <<appointments, client, hook>>

-----------------------------------------------------------------------------
(* frontend chat page: the escalation card and POST /api/appointments/auto-book *)

\* the card is rendered when showEscalation && !bookingConfirmed
CardShown(c) == page[c].showEscalation /\ ~page[c].bookingConfirmed

\* variant: appointments without the UNIQUE constraint on session_id
AppointmentInsertUnconstrained(s) == TRUE

\* appointments.session_id is UNIQUE: a second row of the session is refused
AppointmentInsertAllowed(s) == appointments[s] = 0

BookOutcomes == {"booked", "failed", "lost"}

\* handleAcceptEscalation up to the awaited delay: isBooking guard, setIsBooking,
\* sendMessage('yes', 'user'); the frame is received by the handler of c
AcceptClick(c) ==
    /\ CardShown(c)
    /\ ~page[c].isBooking
    /\ RecvFrame(c, "yes", "user")
    /\ page' = [page EXCEPT ![c].isBooking = TRUE]
    /\ UNCHANGED <<appointments, client, hook>>

\* handleAcceptEscalation after the delay: the POST and its three outcomes:
\* booked (row created, 200), failed (no row, error), lost (row created, the
\* response does not arrive); the catch branch shows the card again
AutoBook(c, outcome) ==
    LET s == connSession[c] IN
    /\ connOpen[c]
    /\ page[c].isBooking
    /\ outcome \in {"booked", "lost"} => AppointmentInsertAllowed(s)
    /\ appointments' = [appointments EXCEPT ![s] =
            IF outcome \in {"booked", "lost"} THEN @ + 1 ELSE @]
    /\ page' = [page EXCEPT ![c] =
            IF outcome = "booked"
            THEN [@ EXCEPT !.showEscalation = FALSE, !.bookingConfirmed = TRUE,
                           !.hideTimer = TRUE, !.isBooking = FALSE]
            ELSE [@ EXCEPT !.showEscalation = TRUE, !.isBooking = FALSE]]
    /\ UNCHANGED <<connOpen, connSession, queryRole, connRole, lastConnect, pc, cur,
                   sessions, AI_DISABLED_SESSIONS, messages, escalation, hadTherapist,
                   inserts, suggestions, joinNotices, nFrames, client, hook>>

\* setTimeout(() => setBookingConfirmed(false), 10000) of the success branch
HideConfirmation(c) ==
    /\ connOpen[c]
    /\ page[c].hideTimer
    /\ page' = [page EXCEPT ![c].bookingConfirmed = FALSE, ![c].hideTimer = FALSE]
    /\ UNCHANGED <<connOpen, connSession, queryRole, connRole, lastConnect, pc, cur,
                   sessions, AI_DISABLED_SESSIONS, messages, escalation, hadTherapist,
                   inserts, suggestions, joinNotices, nFrames, appointments, client, hook>>

\* handleDeclineEscalation: sendMessage('not now', 'user'); setShowEscalation(false)
DeclineClick(c) ==
    /\ CardShown(c)
    /\ ~page[c].isBooking
    /\ RecvFrame(c, "not now", "user")
    /\ page' = [page EXCEPT ![c].showEscalation = FALSE]
    /\ UNCHANGED <<appointments, client, hook>>

-----------------------------------------------------------------------------

NextOn(S) ==
    \/ \E c \in Conns, s \in S, role \in RequestedRoles : ConnectRejected(c, s, role)
    \/ \E c \in Conns, s \in S, role \in RequestedRoles : ConnectUser(c, s, role)
    \/ \E c \in Conns, s \in S, role \in RequestedRoles : ConnectTherapist(c, s, role)
    \/ \E c \in Conns : Disconnect(c)
    \/ \E c \in Conns, content \in Contents, snd \in FrameSenders :
          Recv(c, content, snd)
    \/ \E c \in Conns : DecideDisabled(c)
    \/ \E c \in Conns : DecideAccepted(c)
    \/ \E c \in Conns : DecideEscalate(c)
    \/ \E c \in Conns, out \in AiOutputs : DecideAiReply(c, out)
    \/ \E c \in Conns, out \in AiOutputs : DecideAiSignal(c, out)
    \/ \E c \in Conns, out \in AiOutputs, dies \in BOOLEAN :
          DecideAiSignalConflict(c, out, dies)
    \/ \E c \in Conns : AcceptClick(c)
    \/ \E c \in Conns, outcome \in BookOutcomes : AutoBook(c, outcome)
    \/ \E c \in Conns : HideConfirmation(c)
    \/ \E c \in Conns : DeclineClick(c)

Next == NextOn(MainSessions)

Spec == Init /\ [][Next]_vars

\* the rest of the loop iteration of connection c, after the awaited broadcast
DecideStep(c) ==
    \/ DecideDisabled(c)
    \/ DecideAccepted(c)
    \/ DecideEscalate(c)
    \/ \E out \in AiOutputs : DecideAiReply(c, out)
    \/ \E out \in AiOutputs : DecideAiSignal(c, out)
    \/ \E out \in AiOutputs, dies \in BOOLEAN : DecideAiSignalConflict(c, out, dies)

\* the event loop resumes a handler whose awaited broadcast has completed, and
\* the synchronous get_ai_response call returns
LiveSpec == Init /\ [][Next]_vars /\ \A c \in Conns : WF_vars(DecideStep(c))

-----------------------------------------------------------------------------
(* The chat page as the only client: every message comes from its input form  *)
(* or from the two buttons of the escalation card, and a socket that closes    *)
(* leaves the page mounted with its state (the hook does not reconnect). The   *)
(* accept button of a page whose socket is closed is left out.                 *)

\* variant: the input form is rendered whatever the escalation state
InputFormAlways(pg) == TRUE

\* {!showEscalation && (<form onSubmit={handleSendMessage}> ...)}; input and
\* button are disabled while isBooking || bookingConfirmed
InputFormShown(pg) == ~pg.showEscalation

\* handleSendMessage: returns unless input.trim() && isConnected, then
\* sendMessage(input, isTherapist ? 'therapist' : 'user')
HandleSendMessage(c, content) ==
    /\ InputFormShown(page[c])
    /\ ~page[c].isBooking /\ ~page[c].bookingConfirmed
    /\ connOpen[c]
    /\ Recv(c, content, IF connRole[c] = "therapist" THEN "therapist" ELSE "user")

\* ws.onclose with the page still mounted: the server side handles the
\* disconnect, the page keeps its escalation state
ConnectionLost(c) ==
    /\ DisconnectHandler(c)
    /\ UNCHANGED <<page, appointments, client, hook>>

\* handleDeclineEscalation with wsRef.current null or not OPEN: sendMessage logs
\* 'WebSocket not connected' and returns, then setShowEscalation(false)
DeclineClickUnsent(c) ==
    /\ ~connOpen[c]
    /\ CardShown(c)
    /\ ~page[c].isBooking
    /\ page' = [page EXCEPT ![c].showEscalation = FALSE]
    /\ UNCHANGED <<connOpen, connSession, queryRole, connRole, lastConnect, pc, cur,
                   sessions, AI_DISABLED_SESSIONS, messages, escalation, hadTherapist,
                   inserts, suggestions, joinNotices, nFrames, appointments, client, hook>>

\* the page whose socket has closed is left
LeavePage(c) ==
    /\ ~connOpen[c]
    /\ page[c] # FreshPage
    /\ page' = [page EXCEPT ![c] = FreshPage]
    /\ UNCHANGED <<connOpen, connSession, queryRole, connRole, lastConnect, pc, cur,
                   sessions, AI_DISABLED_SESSIONS, messages, escalation, hadTherapist,
                   inserts, suggestions, joinNotices, nFrames, appointments, client, hook>>

PageNext ==
    \/ \E c \in Conns, s \in MainSessions, role \in RequestedRoles :
          page[c] = FreshPage /\ ConnectRejected(c, s, role)
    \/ \E c \in Conns, s \in MainSessions, role \in RequestedRoles :
          page[c] = FreshPage /\ ConnectUser(c, s, role)
    \/ \E c \in Conns, s \in MainSessions, role \in RequestedRoles :
          page[c] = FreshPage /\ ConnectTherapist(c, s, role)
    \/ \E c \in Conns : Disconnect(c)
    \/ \E c \in Conns : ConnectionLost(c)
    \/ \E c \in Conns : LeavePage(c)
    \/ \E c \in Conns, content \in Contents : HandleSendMessage(c, content)
    \/ \E c \in Conns : DecideDisabled(c)
    \/ \E c \in Conns : DecideAccepted(c)
    \/ \E c \in Conns : DecideEscalate(c)
    \/ \E c \in Conns, out \in AiOutputs : DecideAiReply(c, out)
    \/ \E c \in Conns, out \in AiOutputs : DecideAiSignal(c, out)
    \/ \E c \in Conns, out \in AiOutputs, dies \in BOOLEAN :
          DecideAiSignalConflict(c, out, dies)
    \/ \E c \in Conns : AcceptClick(c)
    \/ \E c \in Conns, outcome \in BookOutcomes : AutoBook(c, outcome)
    \/ \E c \in Conns : HideConfirmation(c)
    \/ \E c \in Conns : DeclineClick(c)
    \/ \E c \in Conns : DeclineClickUnsent(c)

PageSpec == Init /\ [][PageNext]_vars

-----------------------------------------------------------------------------
(* frontend: the message list of the chat page of one browser. The page      *)
(* mounts with the session id of its path; one effect requests the stored    *)
(* history over HTTP, the hook opens the WebSocket, and both write the same  *)
(* list of the store. A message is named by its id, the position of its row  *)
(* among the saved rows of the session.                                      *)

ClientSession == "s1"

\* chatStore.addMessage: [...state.messages, message]
addMessage(list, message) == Append(list, message)

\* chatStore.setMessages: set({ messages })
setMessages(list, loaded) == loaded

\* the ids of the ChatMessage list that the history endpoint returns
HistoryIds(msgs) == [i \in DOMAIN getChatHistory(msgs) |-> i]

ClientRows == {Row("user", "-", "neutral", 100), Row("ai", "How can I help?", "none", 80)}

\* the variables of the server other than the saved messages and the frame count
serverRest == <<connOpen, connSession, queryRole, connRole, lastConnect, pc, cur,
                sessions, AI_DISABLED_SESSIONS, escalation, hadTherapist, inserts,
                suggestions, joinNotices, page, appointments>>

\* the chat page mounts: the history effect calls getChatHistory(sessionId) and
\* the hook creates the WebSocket of the session
MountChatPage ==
    /\ client.history = "none"
    /\ client' = [client EXCEPT !.history = "requested", !.socket = "connecting"]
    /\ UNCHANGED <<serverRest, messages, nFrames, hook>>

\* the server accepts the socket; from here on the session's broadcasts reach it
WsOpen ==
    /\ client.socket = "connecting"
    /\ client' = [client EXCEPT !.socket = "open"]
    /\ UNCHANGED <<serverRest, messages, nFrames, hook>>

\* a turn of the session saves a message and broadcasts it: a frame with the
\* id of the row is on its way to the page when its socket is open
SaveAndBroadcast(row) ==
    /\ nFrames < MaxFrames
    /\ messages' = [messages EXCEPT ![ClientSession] = save_message(@, row)]
    /\ nFrames' = nFrames + 1
    /\ client' = IF client.socket = "open"
                 THEN [client EXCEPT
                          !.frames = Append(@, Len(messages'[ClientSession])),
                          !.received = @ \cup {Len(messages'[ClientSession])}]
                 ELSE client
    /\ UNCHANGED <<serverRest, hook>>

\* ws.onmessage with data.type === 'message': addMessage(message)
OnMessage ==
    /\ client.frames # <<>>
    /\ client' = [client EXCEPT !.messages = addMessage(@, Head(client.frames)),
                                !.frames = Tail(@)]
    /\ UNCHANGED <<serverRest, messages, nFrames, hook>>

\* the server answers GET /api/chat/messages/{session_id} with the rows saved
\* so far; the response is on its way to the page
HistoryServed ==
    /\ client.history = "requested"
    /\ client' = [client EXCEPT
                     !.history = "served",
                     !.snapshot = HistoryIds(messages[ClientSession]),
                     !.received = @ \cup DOMAIN messages[ClientSession]]
    /\ UNCHANGED <<serverRest, messages, nFrames, hook>>

\* loadHistory after the await: setMessages(history)
HistoryLoaded ==
    /\ client.history = "served"
    /\ client' = [client EXCEPT !.history = "loaded",
                                !.messages = setMessages(@, client.snapshot)]
    /\ UNCHANGED <<serverRest, messages, nFrames, hook>>

\* loadHistory's catch branch: the request failed, the list is left as it is
HistoryFailed ==
    /\ client.history = "requested"
    /\ client' = [client EXCEPT !.history = "failed"]
    /\ UNCHANGED <<serverRest, messages, nFrames, hook>>

ClientNext ==
    \/ MountChatPage
    \/ WsOpen
    \/ \E row \in ClientRows : SaveAndBroadcast(row)
    \/ OnMessage
    \/ HistoryServed
    \/ HistoryLoaded
    \/ HistoryFailed

ClientSpec == Init /\ [][ClientNext]_vars

-----------------------------------------------------------------------------
(* frontend/hooks/useWebSocket.ts: the hook of one mounted chat page. Each    *)
(* run of the effect creates a socket for the sessionId of that render; the   *)
(* handlers of a socket stay attached to it for as long as it lives.          *)

MaxSockets == 3

NoSocket == 0

\* the state other than the hook's
hookRest == <<serverRest, messages, nFrames, client>>

\* the cleanup returned by the effect that created socket k:
\* if (ws.readyState === WebSocket.OPEN) ws.close()
EffectCleanup(socks, k) ==
    IF k # NoSocket /\ socks[k].readyState = "OPEN"
    THEN [socks EXCEPT ![k].readyState = "CLOSING"]
    ELSE socks

\* the socket created by the latest run of the effect (every run creates one,
\* sessionId being a non-empty string)
EffectSocket == Len(hook.sockets)

\* a render with another sessionId: React runs the cleanup of the previous
\* effect, then the effect: new WebSocket(`${WS_URL}/api/chat/ws/${sessionId}`)
SetSessionId(s) ==
    /\ s # hook.sessionId
    /\ Len(hook.sockets) < MaxSockets
    /\ hook' = [hook EXCEPT
                   !.sessionId = s,
                   !.sockets = Append(EffectCleanup(@, EffectSocket),
                                      [session |-> s, readyState |-> "CONNECTING"])]
    /\ UNCHANGED hookRest

\* ws.onopen of socket k: setConnected(true); setWebSocket(ws); wsRef.current = ws
OnOpen(k) ==
    /\ hook.sockets[k].readyState = "CONNECTING"
    /\ hook' = [hook EXCEPT !.sockets[k].readyState = "OPEN",
                            !.isConnected = TRUE, !.ws = k, !.wsRef = k]
    /\ UNCHANGED hookRest

\* ws.onclose of socket k (the connection failed, the server or the network
\* closed it, or close() completed): setConnected(false); setWebSocket(null);
\* wsRef.current = null
OnClose(k) ==
    /\ hook.sockets[k].readyState # "CLOSED"
    /\ hook' = [hook EXCEPT !.sockets[k].readyState = "CLOSED",
                            !.isConnected = FALSE, !.ws = NoSocket, !.wsRef = NoSocket]
    /\ UNCHANGED hookRest

HookNext ==
    \/ \E s \in Sessions : SetSessionId(s)
    \/ \E k \in DOMAIN hook.sockets : OnOpen(k)
    \/ \E k \in DOMAIN hook.sockets : OnClose(k)

HookSpec == Init /\ [][HookNext]_vars

-----------------------------------------------------------------------------
(* Two sessions side by side: each connection belongs to the session of its   *)
(* endpoint path, c1 to s1 and c2 to s2, and the operations of the two        *)
(* sessions interleave freely.                                                *)

PathSession(c) == IF c = "c1" THEN "s1" ELSE "s2"

TwoSessionNext ==
    \/ \E c \in Conns, role \in RequestedRoles : ConnectRejected(c, PathSession(c), role)
    \/ \E c \in Conns, role \in RequestedRoles : ConnectUser(c, PathSession(c), role)
    \/ \E c \in Conns, role \in RequestedRoles : ConnectTherapist(c, PathSession(c), role)
    \/ \E c \in Conns : Disconnect(c)
    \/ \E c \in Conns, content \in Contents, snd \in FrameSenders :
          Recv(c, content, snd)
    \/ \E c \in Conns : DecideDisabled(c)
    \/ \E c \in Conns : DecideAccepted(c)
    \/ \E c \in Conns : DecideEscalate(c)
    \/ \E c \in Conns, out \in AiOutputs : DecideAiReply(c, out)
    \/ \E c \in Conns, out \in AiOutputs : DecideAiSignal(c, out)
    \/ \E c \in Conns, out \in AiOutputs, dies \in BOOLEAN :
          DecideAiSignalConflict(c, out, dies)
    \/ \E c \in Conns : AcceptClick(c)
    \/ \E c \in Conns, outcome \in BookOutcomes : AutoBook(c, outcome)
    \/ \E c \in Conns : HideConfirmation(c)
    \/ \E c \in Conns : DeclineClick(c)

TwoSessionSpec == Init /\ [][TwoSessionNext]_vars

-----------------------------------------------------------------------------
(* The escalation-trigger evaluator on stored conversations: one user          *)
(* connection of a session whose history is drawn from a bounded set, and the   *)
(* handling of its next message.                                                *)

SeqsUpTo(S, n) == UNION {[1..k -> S] : k \in 0..n}

\* stored rows: visitor messages with their emotion, AI messages with their
\* text and confidence
HistoryRows ==
    {Row("user", "-", "sadness", 100), Row("user", "-", "neutral", 100),
     Row("ai", "How can I help?", "none", 80), Row("ai", "How can I help?", "none", 40),
     Row("ai", "  HOW CAN I HELP? ", "none", 80),
     Row("ai", "Tell me more.", "none", LOW_CONFIDENCE_THRESHOLD)}

\* an earlier part of a conversation, long enough for both windows to slide off it
EarlierConversation ==
    <<Row("user", "-", "neutral", 100), Row("ai", "How can I help?", "none", 80),
      Row("user", "-", "neutral", 100), Row("ai", "How can I help?", "none", 80),
      Row("user", "-", "neutral", 100), Row("ai", "Tell me more.", "none", 80),
      Row("user", "-", "sadness", 100)>>

Histories ==
    {earlier \o recent : earlier \in {<<>>, EarlierConversation},
                         recent \in SeqsUpTo(HistoryRows, MaxHistory)}

EvalInit ==
    /\ connOpen = [c \in Conns |-> c = "c1"]
    /\ connSession = [c \in Conns |-> IF c = "c1" THEN "s1" ELSE NoSession]
    /\ queryRole = [c \in Conns |-> IF c = "c1" THEN "user" ELSE "none"]
    /\ connRole = [c \in Conns |-> IF c = "c1" THEN "user" ELSE "none"]
    /\ lastConnect = "accepted"
    /\ pc = [c \in Conns |-> IF c = "c1" THEN "idle" ELSE "closed"]
    /\ cur = [c \in Conns |-> IdleTurn]
    /\ sessions = [s \in Sessions |-> [r \in Roles |->
                       IF s = "s1" /\ r = "user" THEN "c1" ELSE NoConn]]
    /\ AI_DISABLED_SESSIONS = {}
    /\ messages \in {[s \in Sessions |-> IF s = "s1" THEN h ELSE <<>>] : h \in Histories}
    /\ escalation = [s \in Sessions |-> NoRecord]
    /\ hadTherapist = [s \in Sessions |-> FALSE]
    /\ inserts = [s \in Sessions |-> 0]
    /\ suggestions = [s \in Sessions |-> 0]
    /\ joinNotices = [c \in Conns |-> 0]
    /\ nFrames = MaxFrames - 1
    /\ page = [c \in Conns |-> FreshPage]
    /\ appointments = [s \in Sessions |-> 0]
    /\ client = FreshClient
    /\ hook = FreshHook

EvalNext ==
    \/ \E c \in Conns, content \in Contents, snd \in FrameSenders :
          Recv(c, content, snd)
    \/ \E c \in Conns : DecideEscalate(c)
    \/ \E c \in Conns, out \in AiOutputs : DecideAiReply(c, out)
    \/ \E c \in Conns, out \in AiOutputs : DecideAiSignal(c, out)
    \/ \E c \in Conns : DecideAiFallback(c)
    \/ \E c \in Conns, content \in Contents, emotion \in {"sadness", "neutral", "none"} :
          RecvClassifierDown(c, content, emotion)

EvalSpec == EvalInit /\ [][EvalNext]_vars

-----------------------------------------------------------------------------
(* Properties *)

AiCount(s) == Cardinality({i \in 1..Len(messages[s]) : messages[s][i].role = "ai"})

LastRole(s) == IF messages[s] = <<>> THEN "none" ELSE messages[s][Len(messages[s])].role

NoHandlerBusy == \A c \in Conns : pc[c] # "decide"

NoTherapistOpen == \A c \in Conns : connOpen[c] => connRole[c] # "therapist"

\* the step ends the dispatch turn of connection c
TurnEnds(c) == pc[c] = "decide" /\ pc'[c] # "decide"

C3_AtMostOneRecord ==
    \A s \in Sessions :
        /\ inserts[s] <= 1
        /\ (inserts[s] = 0) <=> (escalation[s].status = "none")

\* a trigger recurs while the record of the session exists
C3_Witness ==
    /\ inserts["s1"] = 1
    /\ \E c \in Conns :
          /\ pc[c] = "decide"
          /\ TriggerReason(cur[c].content, messages["s1"]) # "none"
          /\ cur[c].statusAtRecv # "none"

\* C4: of two dispatches whose messages both asked for a human and both arrived
\* while no record existed, the one that finds the record already created by the
\* other takes no further action: no message, no suggestion, no record, no change
\* of the record.
C4_RaceLoserTakesNoAction ==
    [][\A c \in Conns :
          (/\ TurnEnds(c)
           /\ cur[c].statusAtRecv = "none"
           /\ check_user_intent(cur[c].content)
           /\ escalation[connSession[c]].reason = "user_request")
          => /\ messages' = messages
             /\ suggestions' = suggestions
             /\ inserts' = inserts
             /\ escalation' = escalation]_vars

C10_NoSuggestionAfterDecline ==
    [][\A s \in Sessions :
          (escalation[s].status = "declined" \/ escalation'[s].status = "declined")
          => /\ suggestions'[s] = suggestions[s]
             /\ inserts'[s] = inserts[s]]_vars

\* a message with an escalation keyword is in its turn after the record was declined
C10_Witness ==
    /\ escalation["s1"].status = "declined"
    /\ \E c \in Conns :
          /\ pc[c] = "decide"
          /\ check_user_intent(cur[c].content)
          /\ cur[c].statusAtRecv = "declined"

\* no_escalation_exists and (intent or struggling), from the detectors themselves
Recommended(c) ==
    /\ no_escalation_exists(connSession[c])
    /\ \/ check_user_intent(cur[c].content)
       \/ evaluate_chat_health(messages[connSession[c]]) # "none"

\* a booking request of some chat page of session s is in flight
BookingInFlight(s) == \E c \in Conns : connSession[c] = s /\ page[c].isBooking

BookingFails(c) ==
    /\ page[c].isBooking /\ ~page'[c].isBooking /\ connOpen'[c]
    /\ page'[c].showEscalation
    /\ appointments' = appointments

C13_IntentFirst ==
    [][\A c \in Conns :
          /\ TurnEnds(c)
          /\ ~is_ai_disabled(connSession[c])
          /\ no_escalation_exists(connSession[c])
          /\ check_user_intent(cur[c].content)
          => escalation'[connSession[c]] = NewRecord("user_request")]_vars

\* a user_request record created while a chat-health detector fires as well
C13_Witness ==
    /\ escalation["s1"] = NewRecord("user_request")
    /\ evaluate_chat_health(messages["s1"]) # "none"

\* the handler of c consults the chat-health detectors in this step: its turn
\* ends, no record of the session exists, the AI is not disabled and the message
\* holds no intent keyword
HealthConsulted(c) ==
    /\ TurnEnds(c)
    /\ ~is_ai_disabled(connSession[c])
    /\ no_escalation_exists(connSession[c])
    /\ ~check_user_intent(cur[c].content)

InWindow(msgs, i, n) == i \in 1..Len(msgs) /\ i > Len(msgs) - n

\* visitor messages with a negative emotion label among the last five messages
NegativeInWindow(msgs) ==
    Cardinality({i \in 1..Len(msgs) :
        /\ InWindow(msgs, i, RECENT_MESSAGE_COUNT)
        /\ msgs[i].role = "user"
        /\ msgs[i].emotion \in {"sadness", "fear", "anger", "anxiety"}})

NormalizedAiTexts == {"how can i help?", "tell me more."}

\* AI messages among the last ten messages whose normalized text is text
AiTextInWindow(msgs, text) ==
    Cardinality({i \in 1..Len(msgs) :
        /\ InWindow(msgs, i, REPETITION_WINDOW)
        /\ msgs[i].role = "ai"
        /\ Truncate(Lower(Strip(msgs[i].content))) = text})

Repeating(msgs) == \E text \in NormalizedAiTexts : AiTextInWindow(msgs, text) >= 3

\* C14: three visitor messages with a negative emotion among the last five
\* messages trigger emotional_distress (no earlier detector firing); two or
\* fewer never do
C14_ThreeNegativeTrigger ==
    [][\A c \in Conns :
          HealthConsulted(c)
          => LET s == connSession[c] IN
             /\ NegativeInWindow(messages[s]) >= 3 /\ ~Repeating(messages[s])
                => escalation'[s] = NewRecord("emotional_distress")
             /\ NegativeInWindow(messages[s]) <= 2
                => escalation'[s].reason # "emotional_distress"]_vars

\* an emotional_distress record created on exactly three negative messages
C14_Witness ==
    /\ escalation["s1"] = NewRecord("emotional_distress")
    /\ NegativeInWindow(messages["s1"]) = 3

C17_SentinelNeverPersisted ==
    \A s \in Sessions : \A i \in 1..Len(messages[s]) :
        messages[s][i].content \notin SentinelTexts

\* the token has been received and turned into a record, and nothing of it is
\* in the history
C17_Witness ==
    /\ escalation["s1"] = NewRecord("gemini_detected")
    /\ suggestions["s1"] = 1
    /\ AiCount("s1") = 0
    /\ NoHandlerBusy

\* connection d receives a SYSTEM_SUGGESTION in this step
GetsSuggestion(d) == page'[d].showEscalation /\ ~page[d].showEscalation

OthersOf(s, role) == {sessions[s][r] : r \in Roles \ {role}} \ {NoConn}

Closes(c) == connOpen[c] /\ ~connOpen'[c]

RegisteredConn(d) == \E s \in Sessions : \E r \in Roles : sessions[s][r] = d

\* C20 as stated: a disconnect removes only the connection that closes: every
\* other registered connection stays registered, and history, record and
\* human-handled flag of the session are unchanged
C20_DisconnectRemovesOnlyThat ==
    [][\A c \in Conns :
          Closes(c) /\ pc[c] = "idle"
          => /\ \A d \in Conns \ {c} : RegisteredConn(d) => RegisteredConn(d)'
             /\ UNCHANGED <<messages, escalation, AI_DISABLED_SESSIONS>>]_vars

\* what the backend holds for session s
SessionData(s) ==
    <<messages[s], escalation[s], s \in AI_DISABLED_SESSIONS, sessions[s],
      appointments[s], suggestions[s], inserts[s]>>

\* what connection c has received, and where its handler stands
ConnData(c) == <<page[c], joinNotices[c], pc[c], cur[c], connOpen[c], connRole[c]>>

\* the step changes data of session s or of a connection of session s
Touched(s) ==
    \/ SessionData(s)' # SessionData(s)
    \/ \E c \in Conns :
          /\ connSession[c] = s \/ connSession'[c] = s
          /\ ConnData(c)' # ConnData(c)

\* C21: no step touches two sessions: an operation on one session leaves the
\* human-handled flag, escalation record, history and registry entry of every
\* other session unchanged and delivers nothing to a connection of another
\* session; the registry of a session holds connections of that session only
C21_SessionsIndependent ==
    [][/\ \A s, t \in Sessions : s # t => ~(Touched(s) /\ Touched(t))
       /\ \A s \in Sessions : \A r \in Roles :
             sessions'[s][r] # NoConn => connSession'[sessions'[s][r]] = s]_vars

\* s1 is human-handled by a therapist while the AI still answers in s2
C21_Witness ==
    /\ AI_DISABLED_SESSIONS = {"s1"}
    /\ sessions["s1"]["therapist"] = "c1"
    /\ sessions["s2"]["user"] = "c2"
    /\ messages["s1"] # <<>>
    /\ LastRole("s2") = "ai"
    /\ escalation["s1"] = NoRecord

AiRows(msgs) == Cardinality({i \in 1..Len(msgs) : msgs[i].role = "ai"})

Automated(s) == AiRows(messages[s]) + suggestions[s]

C24_TurnCompletes == \A c \in Conns : pc[c] = "decide" ~> pc[c] # "decide"

AwaitsResponse(c, k) ==
    /\ pc[c] = "decide"
    /\ connSession[c] \notin AI_DISABLED_SESSIONS
    /\ cur[c].statusAtRecv # "pending"
    /\ escalation[connSession[c]].status # "pending"
    /\ Automated(connSession[c]) = k

\* C24: every dispatch turn eventually completes, and every user message in a
\* session that is neither human-handled nor pending eventually yields an ai
\* message or a suggestion (unless a therapist takes the session over first)
C24_MessageEventuallyAnswered ==
    \A c \in Conns : \A k \in 0..(MaxFrames + 1) :
        AwaitsResponse(c, k) ~>
            \E s \in MainSessions : Automated(s) > k \/ s \in AI_DISABLED_SESSIONS

LastRow(msgs) == msgs[Len(msgs)]

IsPrefix(p, q) == Len(p) <= Len(q) /\ SubSeq(q, 1, Len(p)) = p

C27_FramesInReceiveOrder ==
    [][nFrames' # nFrames =>
          /\ \E s \in Sessions :
                /\ Len(messages'[s]) = Len(messages[s]) + 1
                /\ SubSeq(messages'[s], 1, Len(messages[s])) = messages[s]
                /\ \A u \in Sessions \ {s} : messages'[u] = messages[u]
          /\ \A c \in Conns :
                pc[c] = "decide" => pc'[c] = "decide" /\ cur'[c] = cur[c]]_vars

\* the second frame of c1 is being handled after the turn of its first one
C27_Witness ==
    /\ pc["c1"] = "decide"
    /\ Len(messages["s1"]) = 3
    /\ messages["s1"][1].role = "user"
    /\ messages["s1"][2].role = "ai"
    /\ messages["s1"][3].role = "user"
    /\ nFrames = 2

LowConfidenceInWindow(msgs) ==
    Cardinality({i \in 1..Len(msgs) :
        /\ InWindow(msgs, i, RECENT_MESSAGE_COUNT)
        /\ msgs[i].role = "ai"
        /\ msgs[i].conf < LOW_CONFIDENCE_THRESHOLD})

\* the first window detector that matches, in the order repetition, distress,
\* low confidence
FirstMatch(msgs) ==
    IF Repeating(msgs) THEN "ai_repetition"
    ELSE IF NegativeInWindow(msgs) >= 3 THEN "emotional_distress"
    ELSE IF LowConfidenceInWindow(msgs) >= 2 THEN "low_ai_confidence"
    ELSE "none"

HealthReasons == {"ai_repetition", "emotional_distress", "low_ai_confidence"}

\* C29: with no intent keyword in the message, the escalation created carries
\* the reason of the first detector that matches in the order ai_repetition,
\* emotional_distress, low_ai_confidence, whatever the later ones say; when no
\* detector matches the evaluation creates no escalation
C29_DetectorPrecedence ==
    [][\A c \in Conns :
          HealthConsulted(c)
          => LET s == connSession[c] IN
             IF FirstMatch(messages[s]) # "none"
             THEN /\ escalation'[s] = NewRecord(FirstMatch(messages[s]))
                  /\ messages'[s] = messages[s]
             ELSE escalation'[s].reason \notin HealthReasons]_vars

\* all three detectors match and the record says ai_repetition
C29_Witness ==
    /\ escalation["s1"] = NewRecord("ai_repetition")
    /\ NegativeInWindow(messages["s1"]) >= 3
    /\ LowConfidenceInWindow(messages["s1"]) >= 2

\* C30: the low-confidence detector fires exactly when at least two AI messages
\* among the last five messages have a confidence strictly below 0.55: one such
\* message does not trigger, and a confidence equal to the threshold does not
\* count
C30_TwoLowConfidenceTrigger ==
    [][\A c \in Conns :
          HealthConsulted(c)
          => LET s == connSession[c] IN
             /\ (/\ LowConfidenceInWindow(messages[s]) >= 2
                 /\ ~Repeating(messages[s])
                 /\ NegativeInWindow(messages[s]) <= 2)
                => escalation'[s] = NewRecord("low_ai_confidence")
             /\ LowConfidenceInWindow(messages[s]) <= 1
                => escalation'[s].reason # "low_ai_confidence"]_vars

\* a low_ai_confidence record created on exactly two low-confidence responses,
\* with a response at exactly the threshold in the window as well
C30_Witness ==
    /\ escalation["s1"] = NewRecord("low_ai_confidence")
    /\ LowConfidenceInWindow(messages["s1"]) = 2
    /\ \E i \in 1..Len(messages["s1"]) :
          /\ InWindow(messages["s1"], i, RECENT_MESSAGE_COUNT)
          /\ messages["s1"][i].role = "ai"
          /\ messages["s1"][i].conf = LOW_CONFIDENCE_THRESHOLD

\* AI messages anywhere in the conversation whose normalized text is text
AiTextAnywhere(msgs, text) ==
    Cardinality({i \in 1..Len(msgs) :
        msgs[i].role = "ai" /\ Truncate(Lower(Strip(msgs[i].content))) = text})

\* AI messages among the last five messages whose normalized text is text
AiTextInRecent(msgs, text) ==
    Cardinality({i \in 1..Len(msgs) :
        /\ InWindow(msgs, i, RECENT_MESSAGE_COUNT)
        /\ msgs[i].role = "ai"
        /\ Truncate(Lower(Strip(msgs[i].content))) = text})

Resolved(s) == escalation[s].status \in {"accepted", "declined"}

DeclinedTurnEnds(c) ==
    /\ TurnEnds(c)
    /\ cur[c].statusAtRecv = "declined"
    /\ connSession[c] \notin AI_DISABLED_SESSIONS

\* C36: after the decline the chat continues normally: every later user message
\* of a declined session that is not human-handled is answered by exactly one
\* ai message
C36_ChatContinuesAfterDecline ==
    [][\A c \in Conns :
          DeclinedTurnEnds(c)
          => LET s == connSession[c] IN
             /\ Len(messages'[s]) = Len(messages[s]) + 1
             /\ LastRow(messages'[s]).role = "ai"]_vars

CardReplies == {"yes", "not now"}

\* C37: while showEscalation is set on a chat page, the free-text send path of
\* that page is closed: no message is sent by its input form, and a dispatch
\* turn that the page starts is the turn of an accept or decline reply
C37_NoFreeTextWhilePrompted ==
    [][\A c \in Conns :
          page[c].showEscalation
          => /\ \A content \in Contents : ~HandleSendMessage(c, content)
             /\ pc[c] = "idle" /\ pc'[c] = "decide"
                => cur'[c].content \in CardReplies]_vars

\* the accept reply of a page is being handled while its prompt is still set
C37_Witness ==
    /\ page["c1"].showEscalation
    /\ page["c1"].isBooking
    /\ pc["c1"] = "decide"
    /\ cur["c1"].content = "yes"

\* C38: a 'Not now' click that dismisses the prompt has sent the decline reply,
\* and the reply starts the dispatch turn that resolves the pending record
C38_DismissedMeansDeclined ==
    [][\A c \in Conns :
          DeclineClick(c) \/ DeclineClickUnsent(c)
          => /\ nFrames' = nFrames + 1
             /\ pc'[c] = "decide"
             /\ cur'[c].content = "not now"]_vars

\* the history load has ended and no frame is on its way to the page
ClientSettled == client.history \in {"loaded", "failed"} /\ client.frames = <<>>

\* C39: once the history load has ended and every frame has arrived, the
\* message list of the store holds every message that was sent to the page
\* (in the history response or in a frame) exactly once, in the order of the
\* session, whatever the interleaving of the load with the arriving frames
C39_EveryMessageOnceInOrder ==
    ClientSettled =>
        /\ \A i, j \in DOMAIN client.messages :
              i < j => client.messages[i] < client.messages[j]
        /\ {client.messages[i] : i \in DOMAIN client.messages} = client.received

\* C40: after any sequence of sessionId changes, opens and closes, a socket
\* reference on which sendMessage would send (non-null and OPEN) is the socket
\* the effect created for the current sessionId
C40_RefIsCurrentSocket ==
    (hook.wsRef # NoSocket /\ hook.sockets[hook.wsRef].readyState = "OPEN") =>
        /\ hook.wsRef = EffectSocket
        /\ hook.sockets[hook.wsRef].session = hook.sessionId

====
